---- MODULE Spec2Model ----
(***************************************************************************)
(* Model of the TRNG measurement pipeline:                                 *)
(*   - trngMeasurementScriptV2.py : streamingCallback (edge sampler and     *)
(*     bit accumulation) and the collectData acquisition loop;             *)
(*   - DiffProcessingTechniques.py : vonNeumannProcessing, xorProcessing,   *)
(*     residualProcessing, iteratedVonNeumann and processFile.             *)
(* Sequences are 1-based here; Python index i is position i+1.             *)
(***************************************************************************)
EXTENDS Integers, Sequences, FiniteSets, TLC

\* ------------------------------------------------------------------------
\* Bounds of the model
\* ------------------------------------------------------------------------
\* sizeOfOneBuffer of the model (the program uses 500)
BufSize == 4
\* largest totalSamples / largest output length explored in the other modes
MaxTotal == 2
\* largest durationSeconds
MaxDuration == 2
\* the wall clock runs from 0 to MaxTime
MaxTime == 3
\* longest input string of the extractors
MaxLen == 6

\* ------------------------------------------------------------------------
\* Program constants (main)
\* ------------------------------------------------------------------------
VOLTAGE_RANGE == 5
\* THRESHOLD_CLOCK = 1.5 and THRESHOLD_DATA = 2, in tenths of a volt
THRESHOLD_CLOCK_x10 == 15
THRESHOLD_DATA_x10 == 20
\* full scale of an int16 code
FULL_SCALE == 32767
useX10Probe == TRUE
PROBE_FACTOR == 10
\* default of collectData's parameter no_signal_duration_threshold
no_signal_duration_threshold == 3


Min(a, b) == IF a <= b THEN a ELSE b
Max(a, b) == IF a >= b THEN a ELSE b

\* ------------------------------------------------------------------------
\* Python helpers
\* ------------------------------------------------------------------------
\* s[:k] of Python: a negative k counts from the end
SliceTo(s, k) ==
    LET m == IF k >= 0 THEN Min(k, Len(s)) ELSE Max(Len(s) + k, 0)
    IN  SubSeq(s, 1, m)

\* str(b) for a bit b
Str(b) == IF b = 0 THEN "0" ELSE "1"

\* "".join(map(str, bits))
JoinBits(bits) == [k \in 1..Len(bits) |-> Str(bits[k])]

\* ------------------------------------------------------------------------
\* Edge sampler (streamingCallback, lines 141-152)
\* ------------------------------------------------------------------------
\* (code * (VOLTAGE_RANGE / 32767) >= thresholdClock).astype(int), in integers:
\* code * V / F >= T/10  <=>  code * V * 10 >= T * F
clkBinary(codes) ==
    [k \in 1..Len(codes) |->
        IF codes[k] * VOLTAGE_RANGE * 10 >= THRESHOLD_CLOCK_x10 * FULL_SCALE
        THEN 1 ELSE 0]

\* the data channel is scaled the same way and multiplied by 10 with a x10 probe
dataBinary(codes) ==
    [k \in 1..Len(codes) |->
        IF codes[k] * VOLTAGE_RANGE * (IF useX10Probe THEN PROBE_FACTOR ELSE 1) * 10
              >= THRESHOLD_DATA_x10 * FULL_SCALE
        THEN 1 ELSE 0]

\* np.diff(b): element i (Python index) is b[i+1] - b[i]
Diff(b) == [k \in 1..(Len(b) - 1) |-> b[k + 1] - b[k]]

\* np.where(d == 1)[0]: the Python indices i with d[i] = 1, ascending
RECURSIVE WhereOne(_, _)
WhereOne(d, k) ==
    IF k > Len(d) THEN <<>>
    ELSE (IF d[k] = 1 THEN <<k - 1>> ELSE <<>>) \o WhereOne(d, k + 1)

risingEdges(clk) == WhereOne(Diff(clk), 1)

\* dataBinary[risingEdges]: fancy indexing with Python indices
sampledBits(clockCodes, dataCodes) ==
    LET clk == clkBinary(clockCodes)
        dat == dataBinary(dataCodes)
        re  == risingEdges(clk)
    IN  [k \in 1..Len(re) |-> dat[re[k] + 1]]

\* ------------------------------------------------------------------------
\* DiffProcessingTechniques.py: the extractors.  A string is a sequence of
\* one-character strings; data[i:i+2] is SubSeq(data, i + 1, i + 2).
\* ------------------------------------------------------------------------
\* data[i:j] of Python for 0 <= i <= j
Slice(s, i, j) == SubSeq(s, i + 1, Min(j, Len(s)))

\* vonNeumannLoop with the two emitted bits exchanged
RECURSIVE vonNeumannLoopSwapped(_, _)
vonNeumannLoopSwapped(d, i) ==
    IF i >= Len(d) - 1 THEN <<>>
    ELSE LET pair == Slice(d, i, i + 2)
         IN  (IF pair = <<"1", "0">> THEN <<"1">>
              ELSE IF pair = <<"0", "1">> THEN <<"0">>
              ELSE <<>>) \o vonNeumannLoopSwapped(d, i + 2)

\* for i in range(0, len(data) - 1, 2) of vonNeumannProcessing
RECURSIVE vonNeumannLoop(_, _)
vonNeumannLoop(d, i) ==
    IF i >= Len(d) - 1 THEN <<>>
    ELSE LET pair == Slice(d, i, i + 2)
         IN  (IF pair = <<"1", "0">> THEN <<"0">>
              ELSE IF pair = <<"0", "1">> THEN <<"1">>
              ELSE <<>>) \o vonNeumannLoop(d, i + 2)

vonNeumannProcessing(d) == vonNeumannLoop(d, 0)

\* xorLoop over range(0, len(data), 2): the trailing bit is taken as a pair
RECURSIVE xorLoopPastEnd(_, _)
xorLoopPastEnd(d, i) ==
    IF i >= Len(d) THEN <<>>
    ELSE LET pair == Slice(d, i, i + 2)
         IN  (IF pair = <<"0", "1">> \/ pair = <<"1", "0">> THEN <<"1">>
              ELSE <<"0">>) \o xorLoopPastEnd(d, i + 2)

\* for i in range(0, len(data) - 1, 2) of xorProcessing
RECURSIVE xorLoop(_, _)
xorLoop(d, i) ==
    IF i >= Len(d) - 1 THEN <<>>
    ELSE LET pair == Slice(d, i, i + 2)
         IN  (IF pair = <<"0", "1">> \/ pair = <<"1", "0">> THEN <<"1">>
              ELSE <<"0">>) \o xorLoop(d, i + 2)

xorProcessing(d) == xorLoop(d, 0)

\* residualLoop testing pair '10' where the code tests '00'
RECURSIVE residualLoopWrongPair(_, _)
residualLoopWrongPair(d, i) ==
    IF i >= Len(d) - 1 THEN <<>>
    ELSE LET pair == Slice(d, i, i + 2)
         IN  (IF pair = <<"1", "1">> THEN <<"1">>
              ELSE IF pair = <<"1", "0">> THEN <<"0">>
              ELSE <<>>) \o residualLoopWrongPair(d, i + 2)

\* for i in range(0, len(data) - 1, 2) of residualProcessing
RECURSIVE residualLoop(_, _)
residualLoop(d, i) ==
    IF i >= Len(d) - 1 THEN <<>>
    ELSE LET pair == Slice(d, i, i + 2)
         IN  (IF pair = <<"1", "1">> THEN <<"1">>
              ELSE IF pair = <<"0", "0">> THEN <<"0">>
              ELSE <<>>) \o residualLoop(d, i + 2)

residualProcessing(d) == residualLoop(d, 0)

\* the three placeholders of one pair in iteratedVonNeumann; <<>> stands for None
PairBits(pair) ==
    IF pair = <<"0", "0">> THEN [svn_bit |-> <<>>, sxor_bit |-> <<"0">>, sr_bit |-> <<"0">>]
    ELSE IF pair = <<"0", "1">> THEN [svn_bit |-> <<"1">>, sxor_bit |-> <<"1">>, sr_bit |-> <<>>]
    ELSE IF pair = <<"1", "0">> THEN [svn_bit |-> <<"0">>, sxor_bit |-> <<"1">>, sr_bit |-> <<>>]
    ELSE IF pair = <<"1", "1">> THEN [svn_bit |-> <<>>, sxor_bit |-> <<"0">>, sr_bit |-> <<"1">>]
    ELSE [svn_bit |-> <<>>, sxor_bit |-> <<>>, sr_bit |-> <<>>]

\* CascadePair appending sxor before svn
CascadePairXorFirst(pair) ==
    LET b == PairBits(pair) IN b.sxor_bit \o b.svn_bit \o b.sr_bit

\* CascadePair without the append of sr_bit
CascadePairNoSr(pair) ==
    LET b == PairBits(pair) IN b.svn_bit \o b.sxor_bit

\* the appends of one pair, in the order svn, sxor, sr
CascadePair(pair) ==
    LET b == PairBits(pair) IN b.svn_bit \o b.sxor_bit \o b.sr_bit

RECURSIVE iteratedLoop(_, _)
iteratedLoop(d, i) ==
    IF i >= Len(d) - 1 THEN <<>>
    ELSE CascadePair(Slice(d, i, i + 2)) \o iteratedLoop(d, i + 2)

iteratedVonNeumann(d) == iteratedLoop(d, 0)

\* str.strip(): leading and trailing whitespace removed
IsSpace(c) == c \in {" ", "\n"}
RECURSIVE LStrip(_)
LStrip(s) == IF s # <<>> /\ IsSpace(Head(s)) THEN LStrip(Tail(s)) ELSE s
RECURSIVE RStrip(_)
RStrip(s) ==
    IF s # <<>> /\ IsSpace(s[Len(s)]) THEN RStrip(SubSeq(s, 1, Len(s) - 1)) ELSE s
Strip(s) == RStrip(LStrip(s))

\* ------------------------------------------------------------------------
\* State
\* ------------------------------------------------------------------------
VARIABLES
    bufferClock,        \* global bufferClock (raw codes, length BufSize)
    bufferData,         \* global bufferData
    samplesCollected,   \* global samplesCollected
    output,             \* content of outputFilename
    mode,               \* collectData parameter mode / callback captureMode
    durationSeconds,    \* collectData parameter
    totalSamples,       \* collectData / callback parameter
    now,                \* time.time()
    startTime,          \* collectData local
    lastSignalTime,     \* collectData local
    getLatest,          \* status["getLatest"]
    cb,                 \* arguments of the callback invocation of this iteration
    pc,                 \* position in collectData
    inputFile,          \* content of input.txt
    inputReadable,      \* whether input.txt can be opened and read
    data,               \* processFile local: the stripped input
    results,            \* processFile locals: vn_result, sxor_result, sr_result,
                        \*   cascaded_result
    files,              \* the four output files
    ppc,                \* position in processFile
    threads             \* streamingCallback invocations the driver has in flight
                        \*   on its own threads: position, local sampledBits and
                        \*   the value read for "samplesCollected +="

acqVars == <<bufferClock, bufferData, samplesCollected, output, mode,
             durationSeconds, totalSamples, now, startTime, lastSignalTime,
             getLatest, cb, pc>>
extVars == <<inputFile, inputReadable, data, results, files, ppc>>
conVars == <<threads>>
vars == <<acqVars, extVars, conVars>>

NoCallback == [called |-> FALSE, noOfSamples |-> 0, startIndex |-> 0, overflow |-> 0]

\* the (mode, durationSeconds, totalSamples) triples explored
Configs ==
    {[mode |-> "time", durationSeconds |-> MaxDuration, totalSamples |-> MaxTotal]}
    \cup {[mode |-> "samples", durationSeconds |-> MaxDuration, totalSamples |-> t] :
        t \in 1..MaxTotal}

Zeros == [k \in 1..BufSize |-> 0]

\* main up to the first iteration of collectData's loop
AcqInit ==
    /\ bufferClock = Zeros
    /\ bufferData = Zeros
    /\ samplesCollected = 0
    /\ output = <<>>
    /\ \E c \in Configs :
        /\ mode = c.mode
        /\ durationSeconds = c.durationSeconds
        /\ totalSamples = c.totalSamples
    /\ now = 0
    /\ startTime = 0
    /\ lastSignalTime = 0
    /\ getLatest = "PICO_OK"
    /\ cb = NoCallback
    /\ pc = "poll"

\* ------------------------------------------------------------------------
\* streamingCallback (lines 131-164), run on the buffers the driver has filled
\* ------------------------------------------------------------------------
\* TrimToTotal without the trim to the remaining budget
TrimToTotalNever(bits) == bits

\* TrimToTotal keeping one bit more than the remaining budget
TrimToTotalOneMore(bits) ==
    IF mode = "samples"
    THEN SliceTo(bits, totalSamples - samplesCollected + 1)
    ELSE bits

\* lines 154-157
TrimToTotal(bits) ==
    IF mode = "samples"
    THEN SliceTo(bits, totalSamples - samplesCollected)
    ELSE bits

\* streamingCallback without the test of the overflow flag
streamingCallbackAnyOverflow(bc, bd, noOfSamples, overflow) ==
    LET bits == TrimToTotal(sampledBits(SliceTo(bc, noOfSamples),
                                        SliceTo(bd, noOfSamples)))
    IN  /\ output' = output \o JoinBits(bits)
        /\ samplesCollected' = samplesCollected + Len(bits)

\* streamingCallback opening the output file with "w" instead of "a"
streamingCallbackOverwrite(bc, bd, noOfSamples, overflow) ==
    IF overflow = 0
    THEN LET bits == TrimToTotal(sampledBits(SliceTo(bc, noOfSamples),
                                             SliceTo(bd, noOfSamples)))
         IN  /\ output' = JoinBits(bits)
             /\ samplesCollected' = samplesCollected + Len(bits)
    ELSE UNCHANGED <<output, samplesCollected>>

streamingCallback(bc, bd, noOfSamples, overflow) ==
    IF overflow = 0
    THEN LET bits == TrimToTotal(sampledBits(SliceTo(bc, noOfSamples),
                                             SliceTo(bd, noOfSamples)))
         IN  /\ output' = output \o JoinBits(bits)
             /\ samplesCollected' = samplesCollected + Len(bits)
    ELSE UNCHANGED <<output, samplesCollected>>

\* the driver copies n new samples to the buffers at startIndex
WriteAt(buf, startIndex, new) ==
    [k \in 1..Len(buf) |->
        IF k > startIndex /\ k <= startIndex + Len(new)
        THEN new[k - startIndex] ELSE buf[k]]

\* ------------------------------------------------------------------------
\* collectData (lines 166-220)
\* ------------------------------------------------------------------------
\* the batches the driver may deliver in one poll: where it writes and how many
\* samples (nothing, one sample, the first half, the second half, a full buffer)
Half == BufSize \div 2
BatchShapes ==
    {[startIndex |-> 0, noOfSamples |-> 0],
     [startIndex |-> 0, noOfSamples |-> 1],
     [startIndex |-> 0, noOfSamples |-> Half],
     [startIndex |-> Half, noOfSamples |-> BufSize - Half],
     [startIndex |-> 0, noOfSamples |-> BufSize]}

\* the waveforms the source may show during one batch, as raw codes:
\* a dead, a stuck-high or a toggling clock; data low, or toggling either way
ClockWaves == {"dead", "high", "toggle"}
DataWaves == {"zero", "d1010", "d0101"}

ClockWave(w, n) ==
    [k \in 1..n |->
        IF w = "dead" THEN 0
        ELSE IF w = "high" THEN 10000
        ELSE IF k % 2 = 1 THEN 0 ELSE 10000]

DataWave(w, n) ==
    [k \in 1..n |->
        IF w = "zero" THEN 0
        ELSE IF w = "d1010" THEN (IF k % 2 = 1 THEN 2000 ELSE 0)
        ELSE (IF k % 2 = 1 THEN 0 ELSE 2000)]

\* ps4000aGetStreamingLatestValues (lines 185-189): the driver either fails, has
\* nothing new, or fills the buffers and calls streamingCallback before returning.
\* The returned status is stored and not looked at.
GetStreamingLatestValues ==
    /\ pc = "poll"
    /\ pc' = "signal"
    /\ \/ /\ getLatest' = "PICO_ERROR"
          /\ cb' = NoCallback
          /\ UNCHANGED <<bufferClock, bufferData, output, samplesCollected>>
       \/ /\ getLatest' = "PICO_OK"
          /\ cb' = NoCallback
          /\ UNCHANGED <<bufferClock, bufferData, output, samplesCollected>>
       \/ /\ getLatest' = "PICO_OK"
          /\ \E sh \in BatchShapes, overflow \in {0, 1},
                cw \in ClockWaves, dw \in DataWaves :
                /\ bufferClock' = WriteAt(bufferClock, sh.startIndex,
                                          ClockWave(cw, sh.noOfSamples))
                /\ bufferData' = WriteAt(bufferData, sh.startIndex,
                                         DataWave(dw, sh.noOfSamples))
                /\ cb' = [called |-> TRUE, noOfSamples |-> sh.noOfSamples,
                          startIndex |-> sh.startIndex, overflow |-> overflow]
                /\ streamingCallback(bufferClock', bufferData', sh.noOfSamples, overflow)
                /\ (mode # "samples" => Len(output') <= MaxTotal)
    /\ UNCHANGED <<mode, durationSeconds, totalSamples, now, startTime, lastSignalTime>>
    /\ UNCHANGED <<extVars, conVars>>

AllZero(buf) == \A k \in 1..Len(buf) : buf[k] = 0

\* lines 191-194: any non-zero code anywhere in either buffer counts as signal
SignalCheck ==
    /\ pc = "signal"
    /\ pc' = "stop"
    /\ lastSignalTime' =
          IF ~(AllZero(bufferClock) /\ AllZero(bufferData)) THEN now ELSE lastSignalTime
    /\ UNCHANGED <<bufferClock, bufferData, samplesCollected, output, mode,
                   durationSeconds, totalSamples, now, startTime, getLatest, cb>>
    /\ UNCHANGED <<extVars, conVars>>

\* lines 196-218: the if / elif / elif chain of stopping conditions
StopNow ==
    LET elapsedTime == now - startTime
    IN  IF mode = "time" THEN elapsedTime >= durationSeconds
        ELSE IF mode = "samples" THEN samplesCollected >= totalSamples
        ELSE (now - lastSignalTime) >= no_signal_duration_threshold

StopCheck ==
    /\ pc = "stop"
    /\ pc' = IF StopNow THEN "done" ELSE "poll"
    /\ cb' = NoCallback
    /\ UNCHANGED <<bufferClock, bufferData, samplesCollected, output, mode,
                   durationSeconds, totalSamples, now, startTime, lastSignalTime,
                   getLatest>>
    /\ UNCHANGED <<extVars, conVars>>

\* after the loop (line 220, main lines 293-295): the summary is printed, the
\* acquisition is stopped and the unit closed
stopAndClose ==
    /\ pc = "done"
    /\ pc' = "closed"
    /\ UNCHANGED <<bufferClock, bufferData, samplesCollected, output, mode,
                   durationSeconds, totalSamples, now, startTime, lastSignalTime,
                   getLatest, cb>>
    /\ UNCHANGED <<extVars, conVars>>

\* main run once more in the same process (lines 236-295): the buffers are
\* allocated anew (242-243), collectData truncates the output file (178) and
\* restarts its clocks (179-180); the module-level samplesCollected (line 23)
\* is initialised at import only, so it keeps its value
mainAgain ==
    /\ pc = "closed"
    /\ bufferClock' = Zeros
    /\ bufferData' = Zeros
    /\ output' = <<>>
    /\ startTime' = now
    /\ lastSignalTime' = now
    /\ getLatest' = "PICO_OK"
    /\ cb' = NoCallback
    /\ pc' = "poll"
    /\ UNCHANGED <<samplesCollected, mode, durationSeconds, totalSamples, now>>
    /\ UNCHANGED <<extVars, conVars>>

\* the wall clock advances while the loop waits in the driver call
Tick ==
    /\ pc = "poll"
    /\ now < MaxTime
    /\ now' = now + 1
    /\ UNCHANGED <<bufferClock, bufferData, samplesCollected, output, mode,
                   durationSeconds, totalSamples, startTime, lastSignalTime,
                   getLatest, cb, pc>>
    /\ UNCHANGED <<extVars, conVars>>

\* ------------------------------------------------------------------------
\* streamingCallback delivered on two driver threads at once (lines 131-164);
\* the function takes no lock, so its statements interleave
\* ------------------------------------------------------------------------
Invocations == {1, 2}
NoInvocation == [at |-> "idle", bits |-> <<>>, count |-> 0]

ConIdle == threads = [t \in Invocations |-> NoInvocation]

\* lines 138-152: the driver has filled part of the buffers and enters the
\* callback with overflow = 0; the invocation thresholds and samples its batch
callbackEnter ==
    \E t \in Invocations :
        /\ pc = "poll"
        /\ threads[t].at = "idle"
        /\ Len(output) < MaxTotal
        /\ samplesCollected < MaxTotal
        /\ \E sh \in BatchShapes, cw \in ClockWaves, dw \in DataWaves :
              /\ bufferClock' = WriteAt(bufferClock, sh.startIndex,
                                        ClockWave(cw, sh.noOfSamples))
              /\ bufferData' = WriteAt(bufferData, sh.startIndex,
                                       DataWave(dw, sh.noOfSamples))
              /\ threads' = [threads EXCEPT ![t] =
                    [at |-> "trim",
                     bits |-> sampledBits(SliceTo(bufferClock', sh.noOfSamples),
                                          SliceTo(bufferData', sh.noOfSamples)),
                     count |-> 0]]
        /\ UNCHANGED <<samplesCollected, output, mode, durationSeconds, totalSamples,
                       now, startTime, lastSignalTime, getLatest, cb, pc>>
        /\ UNCHANGED extVars

\* lines 154-157: samplesCollected is read and the bits are cut to the rest
callbackTrim ==
    \E t \in Invocations :
        /\ threads[t].at = "trim"
        /\ threads' = [threads EXCEPT ![t].at = "append",
                                      ![t].bits = TrimToTotal(threads[t].bits)]
        /\ UNCHANGED <<acqVars, extVars>>

\* lines 159-160: the bits are appended to the file
callbackAppend ==
    \E t \in Invocations :
        /\ threads[t].at = "append"
        /\ output' = output \o JoinBits(threads[t].bits)
        /\ threads' = [threads EXCEPT ![t].at = "load"]
        /\ UNCHANGED <<bufferClock, bufferData, samplesCollected, mode,
                       durationSeconds, totalSamples, now, startTime,
                       lastSignalTime, getLatest, cb, pc>>
        /\ UNCHANGED extVars

\* line 162, "samplesCollected += len(sampledBits)": the global is loaded ...
callbackLoad ==
    \E t \in Invocations :
        /\ threads[t].at = "load"
        /\ threads' = [threads EXCEPT ![t].at = "store",
                                      ![t].count = samplesCollected]
        /\ UNCHANGED <<acqVars, extVars>>

\* ... and the sum is stored; the invocation returns
callbackStore ==
    \E t \in Invocations :
        /\ threads[t].at = "store"
        /\ samplesCollected' = threads[t].count + Len(threads[t].bits)
        /\ threads' = [threads EXCEPT ![t] = NoInvocation]
        /\ UNCHANGED <<bufferClock, bufferData, output, mode, durationSeconds,
                       totalSamples, now, startTime, lastSignalTime, getLatest,
                       cb, pc>>
        /\ UNCHANGED extVars

\* ------------------------------------------------------------------------
\* processFile (lines 84-117)
\* ------------------------------------------------------------------------
FileNames == {"von_neumann_output.txt", "sxor_output.txt", "sr_output.txt",
              "iterated_von_neumann.txt"}
Absent == [exists |-> FALSE, content |-> <<>>]
NoResults == [vn_result |-> <<>>, sxor_result |-> <<>>, sr_result |-> <<>>,
              cascaded_result |-> <<>>]

BitStrings(n) == UNION {[1..k -> {"0", "1"}] : k \in 0..n}

\* the extractor is not running
ExtIdle ==
    /\ inputFile = <<>>
    /\ inputReadable = TRUE
    /\ data = <<>>
    /\ results = NoResults
    /\ files = [f \in FileNames |-> Absent]
    /\ ppc = "idle"

\* the script is started on some input.txt: bits, possibly ending in a newline
ExtInit ==
    /\ inputReadable \in BOOLEAN
    /\ inputFile \in
          IF inputReadable
          THEN {b \o t : b \in BitStrings(MaxLen), t \in {<<>>, <<"\n">>}}
          ELSE {<<>>}
    /\ data = <<>>
    /\ results = NoResults
    /\ files = [f \in FileNames |-> Absent]
    /\ ppc = "start"

\* lines 86-87: open and read the input; an unreadable file raises
ReadInput ==
    /\ ppc = "start"
    /\ \/ /\ inputReadable
          /\ data' = Strip(inputFile)
          /\ ppc' = "read"
       \/ /\ ~inputReadable
          /\ ppc' = "raised"
          /\ UNCHANGED data
    /\ UNCHANGED <<inputFile, inputReadable, results, files>>
    /\ UNCHANGED <<acqVars, conVars>>

\* lines 90-95: the four sequences
GenerateSequences ==
    /\ ppc = "read"
    /\ results' = [vn_result |-> vonNeumannProcessing(data),
                   sxor_result |-> xorProcessing(data),
                   sr_result |-> residualProcessing(data),
                   cascaded_result |-> iteratedVonNeumann(data)]
    /\ ppc' = "write_vn"
    /\ UNCHANGED <<inputFile, inputReadable, data, files>>
    /\ UNCHANGED <<acqVars, conVars>>

\* one "with open(name, 'w')" block: the file is written, or the open fails and
\* the exception leaves processFile
WriteFile(at, name, text, next) ==
    /\ ppc = at
    /\ \/ /\ files' = [files EXCEPT ![name] = [exists |-> TRUE, content |-> text]]
          /\ ppc' = next
       \/ /\ ppc' = "raised"
          /\ UNCHANGED files
    /\ UNCHANGED <<inputFile, inputReadable, data, results>>
    /\ UNCHANGED <<acqVars, conVars>>

\* lines 98-108
WriteVonNeumann ==
    WriteFile("write_vn", "von_neumann_output.txt", results.vn_result, "write_sxor")
WriteSxor ==
    WriteFile("write_sxor", "sxor_output.txt", results.sxor_result, "write_sr")
WriteSr ==
    WriteFile("write_sr", "sr_output.txt", results.sr_result, "write_ivn")
WriteIterated ==
    WriteFile("write_ivn", "iterated_von_neumann.txt", results.cascaded_result, "done")

\* the acquisition script is not running
AcqIdle ==
    /\ bufferClock = Zeros
    /\ bufferData = Zeros
    /\ samplesCollected = 0
    /\ output = <<>>
    /\ mode = "samples"
    /\ durationSeconds = MaxDuration
    /\ totalSamples = MaxTotal
    /\ now = 0
    /\ startTime = 0
    /\ lastSignalTime = 0
    /\ getLatest = "PICO_OK"
    /\ cb = NoCallback
    /\ pc = "idle"

Init == AcqInit /\ ExtIdle /\ ConIdle

Next == GetStreamingLatestValues \/ SignalCheck \/ StopCheck \/ stopAndClose \/ Tick

Spec == Init /\ [][Next]_vars

\* time advances (the clock of the model is read while the loop waits in the
\* driver call, so it has to be strongly fair; it stops at MaxTime) and every
\* driver call and every step of the loop returns
LiveSpec ==
    /\ Init
    /\ [][Next]_vars
    /\ SF_vars(Tick)
    /\ WF_vars(GetStreamingLatestValues)
    /\ WF_vars(SignalCheck)
    /\ WF_vars(StopCheck)

\* DiffProcessingTechniques.py run as a script
\* a process that runs acquisition sessions one after the other
SessionsNext == Next \/ mainAgain

SessionsSpec == Init /\ [][SessionsNext]_vars

\* the driver delivering callbacks concurrently during a session
ConcurrentNext ==
    callbackEnter \/ callbackTrim \/ callbackAppend \/ callbackLoad \/ callbackStore

ConcurrentSpec == Init /\ [][ConcurrentNext]_vars

ExtractInit == AcqIdle /\ ExtInit /\ ConIdle

ExtractNext ==
    ReadInput \/ GenerateSequences \/ WriteVonNeumann \/ WriteSxor \/ WriteSr
    \/ WriteIterated

ExtractSpec == ExtractInit /\ [][ExtractNext]_vars

\* ------------------------------------------------------------------------
\* Properties of the acquisition session
\* ------------------------------------------------------------------------
\* the batch streamingCallback has just read: the first noOfSamples codes
SeenClock == SliceTo(bufferClock, cb.noOfSamples)
SeenData == SliceTo(bufferData, cb.noOfSamples)

\* a callback ran in this iteration, on a batch that was not overflowed
CallbackRan == pc = "signal" /\ cb.called /\ cb.overflow = 0

\* C1: in count mode the number of bits collected and written never exceeds
\* totalSamples.
C1_CountCapNeverExceeded ==
    mode = "samples" =>
        /\ samplesCollected <= totalSamples
        /\ Len(output) <= totalSamples

\* a batch with two rising edges was cut down to the one bit still wanted
C1_Witness ==
    /\ CallbackRan
    /\ mode = "samples"
    /\ totalSamples = 1
    /\ Len(sampledBits(SeenClock, SeenData)) = 2
    /\ samplesCollected = 1
    /\ Len(output) = 1

\* the bits the specification describes: dataBinary[i] for every Python index i,
\* 1 <= i < n, with clockBinary[i] - clockBinary[i-1] = 1, ascending
RECURSIVE BitsAtEdgeHigh(_, _, _)
BitsAtEdgeHigh(clk, dat, i) ==
    IF i >= Len(clk) THEN <<>>
    ELSE (IF clk[i + 1] - clk[i] = 1 THEN <<dat[i + 1]>> ELSE <<>>)
         \o BitsAtEdgeHigh(clk, dat, i + 1)

\* C2: a non-overflowed batch (here one written at the start of the buffer, in
\* a mode that does not trim) appends exactly the data bits at the high sample
\* of each rising clock edge, in order; nothing for fewer than 2 samples.
C2_BitsTakenAtEdgeHigh ==
    [][(pc = "poll" /\ cb'.called /\ cb'.overflow = 0 /\ cb'.startIndex = 0
            /\ mode = "time")
        => output' = output \o JoinBits(
              BitsAtEdgeHigh(clkBinary(SliceTo(bufferClock', cb'.noOfSamples)),
                             dataBinary(SliceTo(bufferData', cb'.noOfSamples)), 1))]_vars

\* C3: in both capture modes an iteration that finds
\* now - lastSignalTime >= no_signal_duration_threshold ends the session.
C3_NoSignalTimeoutStops ==
    [][(pc = "stop" /\ mode \in {"time", "samples"}
            /\ now - lastSignalTime >= no_signal_duration_threshold)
        => pc' = "done"]_vars

\* the buffers hold no signal: the source has delivered nothing but zero codes
SourceSilent == AllZero(bufferClock) /\ AllZero(bufferData)

\* C4: the acquisition loop eventually terminates in every mode, whatever the
\* source does; in particular a source that stays silent (no batches, or only
\* all-zero batches) does not make the session run forever.
C4_LoopTerminates == ([]SourceSilent) => <>(pc = "done")

\* a stop condition of the session's mode holds
StopConditionHolds ==
    \/ mode = "time" /\ now - startTime >= durationSeconds
    \/ mode = "samples" /\ samplesCollected >= totalSamples

\* C5: a callback with the overflow flag set appends nothing, leaves
\* samplesCollected alone, raises nothing, and the iteration it belongs to ends
\* the session only if a stop condition holds.
C5_OverflowBatchDropped ==
    [][/\ (pc = "poll" /\ cb'.called /\ cb'.overflow # 0) =>
             /\ output' = output
             /\ samplesCollected' = samplesCollected
             /\ pc' = "signal"
       /\ (cb.called /\ cb.overflow # 0) =>
             /\ pc' # "raised"
             /\ pc' = "done" => StopConditionHolds]_vars

\* an overflowed batch that held a rising edge was dropped, and the loop went on
C5_Witness ==
    /\ pc = "stop"
    /\ cb.called
    /\ cb.overflow = 1
    /\ Len(sampledBits(SeenClock, SeenData)) > 0
    /\ output = <<>>
    /\ samplesCollected = 0
    /\ ~StopConditionHolds

\* C6: a failed driver read ends the session in that iteration with the error
\* raised to the caller; the loop never polls again after it.
C6_ReadErrorIsFatal ==
    getLatest = "PICO_ERROR" => pc \in {"signal", "stop", "raised"}

IsPrefix(a, b) == Len(a) <= Len(b) /\ SubSeq(b, 1, Len(a)) = a

\* the loop has left through a stop condition
Stopped == pc \in {"done", "closed"}

\* C14: the output is append-only and samplesCollected never decreases, over
\* every callback and every loop iteration; once a stop condition has fired
\* neither changes any more.
C14_AppendOnly ==
    [][/\ IsPrefix(output, output')
       /\ samplesCollected' >= samplesCollected
       /\ Stopped => (output' = output /\ samplesCollected' = samplesCollected)]_vars

\* two callbacks have appended different bits one after the other, and the
\* session has been closed
C14_Witness ==
    /\ pc = "closed"
    /\ output = <<"1", "0">>
    /\ samplesCollected = 2

\* the samples the driver delivered with callback c: positions
\* startIndex .. startIndex + noOfSamples - 1 of the buffer
Delivered(buf, c) == SubSeq(buf, c.startIndex + 1, c.startIndex + c.noOfSamples)

\* C16: lastSignalTime is refreshed in an iteration exactly when a batch was
\* received in it whose samples are not all zero on both channels; with no
\* batch, or an all-zero batch, it is left alone.
C16_SignalOnlyFromBatch ==
    [][pc = "signal" =>
          IF cb.called /\ ~(AllZero(Delivered(bufferClock, cb))
                            /\ AllZero(Delivered(bufferData, cb)))
          THEN lastSignalTime' = now
          ELSE lastSignalTime' = lastSignalTime]_vars

\* C18: in count mode a session that stops on the count target has collected
\* exactly totalSamples bits.
C18_StopsAtExactlyTotal ==
    (mode = "samples" /\ Stopped) =>
        /\ samplesCollected = totalSamples
        /\ Len(output) = totalSamples

\* the session stopped with one bit although the buffer holds a batch with two
\* rising edges: the batch had been trimmed
C18_Witness ==
    /\ pc = "done"
    /\ mode = "samples"
    /\ totalSamples = 1
    /\ output = <<"1">>
    /\ samplesCollected = 1
    /\ sampledBits(bufferClock, bufferData) = <<1, 1>>

\* C19: a non-overflowed callback thresholds exactly the noOfSamples samples
\* delivered with it, those at startIndex .. startIndex + noOfSamples - 1 (here
\* in a mode that does not trim: the bits appended are those of that range).
C19_ReadsDeliveredSamples ==
    [][(pc = "poll" /\ cb'.called /\ cb'.overflow = 0 /\ mode = "time")
        => output' = output \o JoinBits(sampledBits(Delivered(bufferClock', cb'),
                                                    Delivered(bufferData', cb')))]_vars

\* C17: between callbacks of any session, also one that is not the first of
\* the process, samplesCollected equals the number of bits in the session's
\* output.
C17_CounterMatchesOutput == samplesCollected = Len(output)

\* no callback invocation is in flight
NoneInFlight == \A t \in Invocations : threads[t].at = "idle"

\* C15: under concurrent delivery of callbacks the count cap still holds and
\* no counter update is lost (once the invocations have returned, the counter
\* is the number of bits written).
C15_ConcurrentCapAndCount ==
    /\ mode = "samples" => Len(output) <= totalSamples
    /\ NoneInFlight => samplesCollected = Len(output)

\* ------------------------------------------------------------------------
\* Properties of the extractors
\* ------------------------------------------------------------------------
Pairs == {<<x, y>> : x \in {"0", "1"}, y \in {"0", "1"}}

\* the per-pair tables of the specification
SVNTable == [p \in Pairs |->
    IF p = <<"1", "0">> THEN <<"0">> ELSE IF p = <<"0", "1">> THEN <<"1">> ELSE <<>>]
SXORTable == [p \in Pairs |-> IF p[1] # p[2] THEN <<"1">> ELSE <<"0">>]
SRTable == [p \in Pairs |->
    IF p = <<"1", "1">> THEN <<"1">> ELSE IF p = <<"0", "0">> THEN <<"0">> ELSE <<>>]
CascadeTable == [p \in Pairs |->
    IF p = <<"0", "0">> THEN <<"0", "0">>
    ELSE IF p = <<"0", "1">> THEN <<"1", "1">>
    ELSE <<"0", "1">>]

\* pair k (k = 0 .. floor(n/2) - 1) of b: (b[2k], b[2k+1]) in Python indices
PairAt(b, k) == <<b[2 * k + 1], b[2 * k + 2]>>

\* concatenation of table[pair k] over the first m pairs of b, in order
RECURSIVE ConcatTable(_, _, _)
ConcatTable(table, b, m) ==
    IF m = 0 THEN <<>>
    ELSE ConcatTable(table, b, m - 1) \o table[PairAt(b, m - 1)]

\* what the three standalone extractors emit for pair k alone, in the order
\* von Neumann, xor, residual, over the first m pairs of b
RECURSIVE Interleaved(_, _)
Interleaved(b, m) ==
    IF m = 0 THEN <<>>
    ELSE Interleaved(b, m - 1)
         \o vonNeumannProcessing(PairAt(b, m - 1))
         \o xorProcessing(PairAt(b, m - 1))
         \o residualProcessing(PairAt(b, m - 1))

DropLast(b) == SubSeq(b, 1, Len(b) - 1)

\* processFile has computed the four sequences of data
Computed == ppc \in {"write_vn", "write_sxor", "write_sr", "write_ivn", "done"}

\* C7: for every bit sequence (any length, odd or even) each standalone extractor
\* returns the concatenation over the non-overlapping pairs, in order, of its
\* per-pair table, and a trailing unpaired bit does not change any output.
C7_ExtractorsFollowPairTables ==
    Computed =>
        /\ results.vn_result = ConcatTable(SVNTable, data, Len(data) \div 2)
        /\ results.sxor_result = ConcatTable(SXORTable, data, Len(data) \div 2)
        /\ results.sr_result = ConcatTable(SRTable, data, Len(data) \div 2)
        /\ Len(data) % 2 = 1 =>
              /\ results.vn_result = vonNeumannProcessing(DropLast(data))
              /\ results.sxor_result = xorProcessing(DropLast(data))
              /\ results.sr_result = residualProcessing(DropLast(data))

C7_Witness ==
    /\ Computed
    /\ Len(data) = 5
    /\ results.vn_result = <<"0", "1">>
    /\ results.sr_result = <<>>
    /\ results.sxor_result = <<"1", "1">>

\* C8: iteratedVonNeumann is the pair-by-pair interleaving of the three standalone
\* extractors (svn bit, then sxor bit, then sr bit of each pair): 00 gives "00",
\* 01 gives "11", 10 gives "01", 11 gives "01"; input 0011 gives 0001.
C8_CascadeInterleavesPerPair ==
    Computed =>
        /\ results.cascaded_result = Interleaved(data, Len(data) \div 2)
        /\ results.cascaded_result = ConcatTable(CascadeTable, data, Len(data) \div 2)
        /\ data = <<"0", "0", "1", "1">> =>
              results.cascaded_result = <<"0", "0", "0", "1">>

C8_Witness ==
    /\ Computed
    /\ data = <<"0", "0", "1", "1">>
    /\ results.cascaded_result = <<"0", "0", "0", "1">>

\* C9: the cascade is as long as the three standalone outputs together, and each
\* pair contributes exactly 1 or exactly 2 bits to it.
C9_CascadeLength ==
    Computed =>
        /\ Len(results.cascaded_result) =
              Len(results.sxor_result) + Len(results.vn_result) + Len(results.sr_result)
        /\ \A k \in 0..(Len(data) \div 2 - 1) :
              Len(iteratedVonNeumann(PairAt(data, k))) \in {1, 2}

C9_Witness ==
    /\ Computed
    /\ Len(data) = 6
    /\ Len(results.vn_result) = 2
    /\ Len(results.sr_result) = 1
    /\ Len(results.cascaded_result) = 6

\* C10: xorProcessing returns exactly floor(n/2) bits for an input of n bits.
C10_XorLength ==
    Computed => Len(results.sxor_result) = Len(data) \div 2

C10_Witness ==
    /\ Computed
    /\ Len(data) = 5
    /\ Len(results.sxor_result) = 2

\* C11: no pair contributes a bit to both vonNeumannProcessing and
\* residualProcessing, and len(SVN) + len(SR) <= n/2.
C11_SvnSrExclusive ==
    Computed =>
        /\ \A k \in 0..(Len(data) \div 2 - 1) :
              ~(/\ vonNeumannProcessing(PairAt(data, k)) # <<>>
                /\ residualProcessing(PairAt(data, k)) # <<>>)
        /\ 2 * (Len(results.vn_result) + Len(results.sr_result)) <= Len(data)

C11_Witness ==
    /\ Computed
    /\ Len(data) = 5
    /\ Len(results.vn_result) = 1
    /\ Len(results.sr_result) = 1

\* C12 as stated: input 0110 gives SVN = 10, SXOR = 11, SR empty and
\* cascade = 1110.
C12_Case0110_AsStated ==
    (Computed /\ data = <<"0", "1", "1", "0">>) =>
        /\ results.vn_result = <<"1", "0">>
        /\ results.sxor_result = <<"1", "1">>
        /\ results.sr_result = <<>>
        /\ results.cascaded_result = <<"1", "1", "1", "0">>

\* C12: input 0110 (pairs 01, 10) gives SVN = 10, SXOR = 11, SR empty and
\* cascade = 1101 (pair 01 gives svn 1, sxor 1; pair 10 gives svn 0, sxor 1).
C12_Case0110 ==
    (Computed /\ data = <<"0", "1", "1", "0">>) =>
        /\ results.vn_result = <<"1", "0">>
        /\ results.sxor_result = <<"1", "1">>
        /\ results.sr_result = <<>>
        /\ results.cascaded_result = <<"1", "1", "0", "1">>

C12_Witness ==
    /\ Computed
    /\ data = <<"0", "1", "1", "0">>
    /\ inputFile = <<"0", "1", "1", "0", "\n">>
    /\ results.cascaded_result = <<"1", "1", "0", "1">>

\* processFile has ended, normally or by an exception
Ended == ppc \in {"done", "raised"}

\* C13: an unreadable input raises before any output file is touched, and every
\* run leaves either all four output files written or none, also when a
\* failure occurs between the writes.
C13_AllOrNothing ==
    /\ ~inputReadable => \A f \in FileNames : ~files[f].exists
    /\ Ended => \/ \A f \in FileNames : files[f].exists
                \/ \A f \in FileNames : ~files[f].exists

====
